---- MODULE Spec2Model ----
(***************************************************************************)
(* The benchmark harness of cartesi-demo: bench() runs bench_simple (a     *)
(* CPU loop, a file write, read and delete) and then bench_sql (open a     *)
(* SQLite file, create the schema, load the fixture rows, run the timed    *)
(* queries, close and delete the file).  Every timed operation prints one  *)
(* line; any error rejects bench()'s promise, which the entry point        *)
(* handles with console.error.                                             *)
(*                                                                         *)
(* The temp directory outlives the process, so the model lets the program  *)
(* be started again on whatever an earlier run left behind.                *)
(*                                                                         *)
(* A synchronous call is one step.  An asynchronous call is two: the call  *)
(* that creates the promise, and the promise settling, which is when the   *)
(* engine's work takes effect and the await resumes bench_sql.             *)
(***************************************************************************)
EXTENDS Integers, Sequences, FiniteSets, TLC

\* ------------------------------------------------------------------ bounds
\* The most the monotonic clock advances while one step runs.
MaxTick == 1
\* The clock stops advancing once it reads this much in one run.
MaxClock == 2

\* --------------------------------------------------------------- the files
testFile == "benchmark_test.txt"
dbPath == "sql_benchmark.db"

\* ------------------------------------------------------------ the database
TableNames == {"customers", "categories", "products", "orders", "order_items"}

\* SQL NULL in an INTEGER column; rowids start at 1.
NULL == 0

\* The FOREIGN KEY clauses of the CREATE TABLE statements: <<column, parent table>>.
ForeignKeys(t) ==
  CASE t = "customers" -> {}
    [] t = "categories" -> {<<"parent_id", "categories">>}
    [] t = "products" -> {<<"category_id", "categories">>}
    [] t = "orders" -> {<<"customer_id", "customers">>}
    [] t = "order_items" -> {<<"order_id", "orders">>, <<"product_id", "products">>}

\* The UNIQUE columns of the CREATE TABLE statements (besides the primary keys).
UniqueColumns(t) == IF t = "customers" THEN {"email"} ELSE {}

\* The errors the environment causes (disk full, permissions, locks), as against
\* those the state of the files or of the database causes.
IoError == "EIO"

\* A database file holding no table.
EmptyDb == [exists |-> {}, rows |-> [t \in TableNames |-> <<>>]]

Drop(t) == [kind |-> "drop", table |-> t, rows |-> <<>>]
Create(t) == [kind |-> "create", table |-> t, rows |-> <<>>]
Insert(t, rs) == [kind |-> "insert", table |-> t, rows |-> rs]

\* createSchema's first batch.
DropBatch ==
  << Drop("order_items"), Drop("orders"), Drop("products"),
     Drop("categories"), Drop("customers") >>

\* createSchema's second batch.
CreateBatch ==
  << Create("customers"), Create("categories"), Create("products"),
     Create("orders"), Create("order_items") >>

\* insertTestData's literal rows (prices in cents).
CustomerRows ==
  << [name |-> "John Doe", email |-> "john@example.com"],
     [name |-> "Jane Smith", email |-> "jane@example.com"],
     [name |-> "Bob Johnson", email |-> "bob@example.com"] >>

CategoryRows ==
  << [name |-> "Electronics", parent_id |-> NULL],
     [name |-> "Computers", parent_id |-> 1],
     [name |-> "Smartphones", parent_id |-> 1],
     [name |-> "Clothing", parent_id |-> NULL],
     [name |-> "Men", parent_id |-> 4],
     [name |-> "Women", parent_id |-> 4] >>

ProductRows ==
  << [name |-> "Premium Laptop", description |-> "High-end laptop with premium features",
      price |-> 129999, category_id |-> 2],
     [name |-> "Smartphone Pro", description |-> "Latest smartphone with exclusive features",
      price |-> 99999, category_id |-> 3],
     [name |-> "Classic T-Shirt", description |-> "Comfortable cotton t-shirt",
      price |-> 2999, category_id |-> 5],
     [name |-> "Designer Dress", description |-> "Elegant designer dress",
      price |-> 19999, category_id |-> 6] >>

OrderRows ==
  << [customer_id |-> 1, total_amount |-> 132998],
     [customer_id |-> 1, total_amount |-> 22998],
     [customer_id |-> 2, total_amount |-> 99999],
     [customer_id |-> 3, total_amount |-> 19999] >>

OrderItemRows ==
  << [order_id |-> 1, product_id |-> 1, quantity |-> 1, price |-> 129999],
     [order_id |-> 1, product_id |-> 3, quantity |-> 1, price |-> 2999],
     [order_id |-> 2, product_id |-> 3, quantity |-> 2, price |-> 2999],
     [order_id |-> 3, product_id |-> 2, quantity |-> 1, price |-> 99999],
     [order_id |-> 4, product_id |-> 4, quantity |-> 1, price |-> 19999] >>

InsertCustomers == << Insert("customers", CustomerRows) >>
InsertCategories == << Insert("categories", CategoryRows) >>
InsertProducts == << Insert("products", ProductRows) >>
InsertOrders == << Insert("orders", OrderRows), Insert("order_items", OrderItemRows) >>

\* The rowids a table holds.
Ids(db, t) == {db.rows[t][i].id : i \in 1..Len(db.rows[t])}

SetMax(S) == IF S = {} THEN 0 ELSE CHOOSE m \in S : \A x \in S : x <= m

\* An INTEGER PRIMARY KEY left out of the INSERT: one more than the largest rowid.
NextId(db, t) == SetMax(Ids(db, t)) + 1

\* The foreign keys of row r of table t that name no row of the parent table in db.
Dangling(db, t, r) ==
  {fk \in ForeignKeys(t) :
     r[fk[1]] # NULL /\ r[fk[1]] \notin (IF fk[2] \in db.exists THEN Ids(db, fk[2]) ELSE {})}

\* Whether row r would repeat a UNIQUE value of table t.
Conflicts(db, t, r) ==
  \E c \in UniqueColumns(t) : \E i \in 1..Len(db.rows[t]) : db.rows[t][i][c] = r[c]

\* What a database call gives: the database after it, whether it succeeded, the
\* error if it did not.
Ok(db, dangling) == [db |-> db, ok |-> TRUE, dangling |-> dangling, error |-> ""]
Failed(db, dangling, e) == [db |-> db, ok |-> FALSE, dangling |-> dangling, error |-> e]

\* One row appended under its new rowid; dangling counts the references that
\* named no existing row when they were inserted (SQLite does not enforce
\* foreign keys unless asked to).
RECURSIVE InsertRows(_, _, _, _)
InsertRows(db, t, rs, dangling) ==
  IF rs = <<>> THEN Ok(db, dangling)
  ELSE IF Conflicts(db, t, Head(rs)) THEN Failed(db, dangling, "SQLITE_CONSTRAINT")
  ELSE LET r == [id |-> NextId(db, t)] @@ Head(rs)
       IN InsertRows([db EXCEPT !.rows[t] = Append(@, r)], t, Tail(rs),
                     dangling + Cardinality(Dangling(db, t, r)))

\* One SQL statement in autocommit mode: all of it or nothing.
Statement(db, s, dangling) ==
  CASE s.kind = "drop" ->
         Ok([exists |-> db.exists \ {s.table},
             rows |-> [db.rows EXCEPT ![s.table] = <<>>]], dangling)
    [] s.kind = "create" ->
         IF s.table \in db.exists
           THEN Failed(db, dangling, "SQLITE_ERROR")
           ELSE Ok([db EXCEPT !.exists = @ \cup {s.table}], dangling)
    [] s.kind = "insert" ->
         IF s.table \notin db.exists
           THEN Failed(db, dangling, "SQLITE_ERROR")
           ELSE LET res == InsertRows(db, s.table, s.rows, dangling)
                IN IF res.ok THEN res ELSE Failed(db, dangling, res.error)

\* db.exec(batch): the statements run one after the other and the batch stops
\* at the first that fails, what ran before it staying applied.  ioFailAt is the
\* statement at which the environment (disk, locks) makes it fail, 0 for none.
RECURSIVE ExecFrom(_, _, _, _, _)
ExecFrom(db, batch, i, ioFailAt, dangling) ==
  IF i > Len(batch) THEN Ok(db, dangling)
  ELSE IF i = ioFailAt THEN Failed(db, dangling, IoError)
  ELSE LET res == Statement(db, batch[i], dangling)
       IN IF res.ok THEN ExecFrom(res.db, batch, i + 1, ioFailAt, res.dangling)
          ELSE res

Exec(db, batch, ioFailAt, dangling) == ExecFrom(db, batch, 1, ioFailAt, dangling)

\* db.all(query): a SELECT reads the tables it names and writes none; it fails
\* when one of them does not exist.
QueryTables(step) ==
  CASE step = "join" -> {"orders", "customers", "order_items", "products"}
    [] step = "cte" -> {"categories"}
    [] step = "agg" -> {"customers", "orders", "order_items"}
    [] step = "search" -> {"products", "categories"}

\* Mutant of DbAll: a query that also deletes the orders it read.
DbAllDeleting(db, step) ==
  IF QueryTables(step) \subseteq db.exists
    THEN Ok([db EXCEPT !.rows["orders"] = <<>>], 0)
    ELSE Failed(db, 0, "SQLITE_ERROR")

DbAll(db, step) ==
  IF QueryTables(step) \subseteq db.exists THEN Ok(db, 0) ELSE Failed(db, 0, "SQLITE_ERROR")

\* The batch each db.exec call passes.
BatchOf(step) ==
  CASE step = "drop" -> DropBatch
    [] step = "create" -> CreateBatch
    [] step = "ins_customers" -> InsertCustomers
    [] step = "ins_categories" -> InsertCategories
    [] step = "ins_products" -> InsertProducts
    [] step = "ins_orders" -> InsertOrders

\* ------------------------------------------------------------- the program
\* bench_simple's operations, in program order.
BenchSimple == << "sqrt", "write", "read", "unlink_txt" >>

\* Mutant of CreateSchema: the tables are created without being dropped first.
CreateSchemaNoDrop == << "create" >>

\* Mutant of InsertTestData: the products are inserted before their categories.
InsertProductsFirst == << "ins_customers", "ins_products", "ins_categories", "ins_orders" >>

\* createSchema's and insertTestData's db.exec calls, in program order.
CreateSchema == << "drop", "create" >>
InsertTestData == << "ins_customers", "ins_categories", "ins_products", "ins_orders" >>

\* bench_sql's db.all calls, in program order.
Queries == << "join", "cte", "agg", "search" >>

\* Mutant of BenchSql: the database file is deleted before the connection is closed.
BenchSqlUnlinkBeforeClose ==
  << "open" >> \o CreateSchema \o InsertTestData \o Queries \o << "unlink_db", "close" >>

\* bench_sql's operations, in program order.
BenchSql ==
  << "open" >> \o CreateSchema \o InsertTestData \o Queries \o << "close", "unlink_db" >>

\* bench(): bench_simple(), then await bench_sql().
Bench == BenchSimple \o BenchSql

Range(seq) == {seq[i] : i \in 1..Len(seq)}

\* The operations that return a promise.
AsyncSteps == {"open", "close"} \cup Range(CreateSchema) \cup Range(InsertTestData) \cup Range(Queries)
ExecSteps == Range(CreateSchema) \cup Range(InsertTestData)

\* Mutant of Awaited: createSchema's second db.exec is not awaited.
AwaitedExceptCreate(step) == step # "create"

\* Every promise bench_sql, createSchema and insertTestData create is awaited.
Awaited(step) == TRUE

\* Mutant of Timers: the search query's console.log is missing.
TimersWithoutSearch ==
  << [label |-> "Square root execution", first |-> "sqrt", last |-> "sqrt"],
     [label |-> "Write execution", first |-> "write", last |-> "write"],
     [label |-> "Read execution", first |-> "read", last |-> "read"],
     [label |-> "Schema creation", first |-> "drop", last |-> "create"],
     [label |-> "Data insertion", first |-> "ins_customers", last |-> "ins_orders"],
     [label |-> "Complex JOIN query", first |-> "join", last |-> "join"],
     [label |-> "Recursive CTE query", first |-> "cte", last |-> "cte"],
     [label |-> "Complex aggregation", first |-> "agg", last |-> "agg"] >>

\* The hrtime pairs: the label printed, the operation before which the start is
\* read and the operation after which the end is read.
Timers ==
  << [label |-> "Square root execution", first |-> "sqrt", last |-> "sqrt"],
     [label |-> "Write execution", first |-> "write", last |-> "write"],
     [label |-> "Read execution", first |-> "read", last |-> "read"],
     [label |-> "Schema creation", first |-> "drop", last |-> "create"],
     [label |-> "Data insertion", first |-> "ins_customers", last |-> "ins_orders"],
     [label |-> "Complex JOIN query", first |-> "join", last |-> "join"],
     [label |-> "Recursive CTE query", first |-> "cte", last |-> "cte"],
     [label |-> "Complex aggregation", first |-> "agg", last |-> "agg"],
     [label |-> "Full-text search", first |-> "search", last |-> "search"] >>

\* Mutant of TotalFirst: bench_sql's start is read only before the first query.
TotalFirstAtQueries == "join"

\* bench_sql's own pair, around everything it does.
TotalLabel == "Total SQL benchmark"
TotalFirst == "open"
TotalLast == "unlink_db"

\* Mutant of RejectionHandled: the entry point calls bench() with no .catch.
RejectionUnhandled == FALSE

\* The entry point is bench().catch(console.error): bench()'s rejection has a
\* handler.
RejectionHandled == TRUE

\* Node's exit status once the event loop is empty: 1 after a rejection nothing
\* handled, 0 otherwise.
ExitStatus(rejected, handled) == IF rejected /\ ~handled THEN 1 ELSE 0

\* Mutant of FilesAfterCatch: a handler that removes the temp files.
FilesCleanedUp(fs) == {}

\* The entry point's handler only prints: it deletes nothing.
FilesAfterCatch(fs) == fs

VARIABLES
  pc,          \* the operation bench() is at, or "resolved", "rejected", "exited"
  phase,       \* "ready" to start pc's operation, or "awaiting" its promise
  inflight,    \* the asynchronous operations started and not yet settled
  now,         \* the monotonic clock, process.hrtime.bigint()
  tstart,      \* the start timestamp of the timed operation under way
  sqlStart,    \* bench_sql's start
  out,         \* stdout: the lines console.log printed, with their two timestamps
  err,         \* stderr: what console.error or the runtime printed
  exitCode,    \* the exit status, -1 while the process runs
  files,       \* the files of os.tmpdir()
  tables,      \* the contents of the database file
  conn,        \* the connection: "none", "open", "closed"
  failedAt,    \* the operation that threw, "" if none did
  error,       \* the error it threw, "" if none
  started,     \* history: the operations started, in order
  completed,   \* history: the operations that returned or resolved, in order
  dangling,    \* history: foreign keys inserted that named no existing row
  leftover     \* history: what the temp directory held when the process started

vars ==
  << pc, phase, inflight, now, tstart, sqlStart, out, err, exitCode, files, tables,
     conn, failedAt, error, started, completed, dangling, leftover >>

Init ==
  /\ pc = Bench[1]
  /\ phase = "ready"
  /\ inflight = {}
  /\ now = 0
  /\ tstart = 0
  /\ sqlStart = 0
  /\ out = <<>>
  /\ err = <<>>
  /\ exitCode = -1
  /\ files = {}
  /\ tables = EmptyDb
  /\ conn = "none"
  /\ failedAt = ""
  /\ error = ""
  /\ started = <<>>
  /\ completed = <<>>
  /\ dangling = 0
  /\ leftover = [files |-> {}, db |-> EmptyDb]

\* How far the clock may advance during one operation.
Ticks == 0..(IF MaxClock - now < MaxTick THEN MaxClock - now ELSE MaxTick)

IndexOf(seq, x) == CHOOSE i \in 1..Len(seq) : seq[i] = x

\* The operation after step, or "resolved" when bench() returns.
Succ(step) ==
  LET i == IndexOf(Bench, step)
  IN IF i = Len(Bench) THEN "resolved" ELSE Bench[i + 1]

\* The timestamp the timer covering step starts from, read before step if step
\* is the timer's first operation.
StartFor(step) ==
  IF \E i \in 1..Len(Timers) : Timers[i].first = step THEN now ELSE tstart

\* console.log after step: the line of the timer that ends with it, and
\* bench_sql's total after its last operation.
Emit(lines, step, t0, t1) ==
  LET timed == IF \E i \in 1..Len(Timers) : Timers[i].last = step
                 THEN LET i == CHOOSE i \in 1..Len(Timers) : Timers[i].last = step
                      IN Append(lines, [label |-> Timers[i].label, start |-> t0, end |-> t1])
                 ELSE lines
  IN IF step = TotalLast
       THEN Append(timed, [label |-> TotalLabel, start |-> sqlStart, end |-> t1])
       ELSE timed

\* step returned at time t1: print, go on to the next operation.
Return(step, t0, t1) ==
  /\ out' = Emit(out, step, t0, t1)
  /\ pc' = Succ(step)
  /\ phase' = "ready"
  /\ completed' = Append(completed, step)
  /\ UNCHANGED << failedAt, error >>

\* Mutant of Throw: the error is caught around the operation and the run goes on.
SwallowAndContinue(step, e) ==
  /\ out' = out
  /\ pc' = Succ(step)
  /\ phase' = "ready"
  /\ completed' = completed
  /\ failedAt' = step
  /\ error' = e

\* step threw e: nothing in bench, bench_simple or bench_sql catches, so the
\* promise bench() returned is rejected.
Throw(step, e) ==
  /\ out' = out
  /\ pc' = "rejected"
  /\ phase' = "ready"
  /\ completed' = completed
  /\ failedAt' = step
  /\ error' = e

\* A synchronous operation starts.
Call(step) ==
  /\ pc = step
  /\ phase = "ready"
  /\ started' = Append(started, step)
  /\ tstart' = StartFor(step)
  /\ sqlStart' = sqlStart

\* for (i < 1e6) Math.sqrt(i)
SqrtLoop ==
  /\ Call("sqrt")
  /\ \E d \in Ticks :
       /\ now' = now + d
       /\ Return("sqrt", StartFor("sqrt"), now + d)
  /\ UNCHANGED << inflight, err, exitCode, files, tables, conn, dangling, leftover >>

\* fs.writeFileSync(testFile, testData)
WriteFileSync ==
  /\ Call("write")
  /\ \E d \in Ticks :
       /\ now' = now + d
       /\ \/ /\ files' = files \cup {testFile}
             /\ Return("write", StartFor("write"), now + d)
          \/ \* the file may have been created before the write failed
             /\ files' \in {files, files \cup {testFile}}
             /\ Throw("write", IoError)
  /\ UNCHANGED << inflight, err, exitCode, tables, conn, dangling, leftover >>

\* fs.readFileSync(testFile, 'utf8')
ReadFileSync ==
  /\ Call("read")
  /\ \E d \in Ticks, ioFail \in BOOLEAN :
       /\ now' = now + d
       /\ IF testFile \in files /\ ~ioFail
            THEN Return("read", StartFor("read"), now + d)
            ELSE Throw("read", IF ioFail THEN IoError ELSE "ENOENT")
  /\ UNCHANGED << inflight, err, exitCode, files, tables, conn, dangling, leftover >>

\* fs.unlinkSync(testFile)
UnlinkTestFile ==
  /\ Call("unlink_txt")
  /\ \E d \in Ticks, ioFail \in BOOLEAN :
       /\ now' = now + d
       /\ IF testFile \in files /\ ~ioFail
            THEN /\ files' = files \ {testFile}
                 /\ Return("unlink_txt", StartFor("unlink_txt"), now + d)
            ELSE /\ files' = files
                 /\ Throw("unlink_txt", IF ioFail THEN IoError ELSE "ENOENT")
  /\ UNCHANGED << inflight, err, exitCode, tables, conn, dangling, leftover >>

\* An asynchronous operation starts: the call returns a promise, and the await
\* suspends bench_sql until the promise settles.
AwaitCall ==
  \E step \in AsyncSteps :
    /\ pc = step
    /\ phase = "ready"
    /\ started' = Append(started, step)
    /\ tstart' = StartFor(step)
    /\ sqlStart' = IF step = TotalFirst THEN now ELSE sqlStart
    /\ inflight' = inflight \cup {step}
    /\ IF Awaited(step)
         THEN /\ phase' = "awaiting"
              /\ UNCHANGED << pc, out, completed >>
         ELSE /\ out' = Emit(out, step, StartFor(step), now)
              /\ pc' = Succ(step)
              /\ UNCHANGED << phase, completed >>
    /\ UNCHANGED << now, err, exitCode, files, tables, conn, failedAt, error, dangling,
                    leftover >>

\* The promise of step is fulfilled at time t1: bench_sql resumes after its await.
Resolve(step, t1) ==
  IF phase = "awaiting" /\ pc = step
    THEN Return(step, tstart, t1)
    ELSE /\ completed' = Append(completed, step)
         /\ UNCHANGED << pc, phase, out, failedAt, error >>

\* The promise of step is rejected with e: the await throws it.
Reject(step, e) ==
  IF phase = "awaiting" /\ pc = step
    THEN Throw(step, e)
    ELSE UNCHANGED << pc, phase, out, completed, failedAt, error >>

\* open({filename: dbPath, driver: sqlite3.Database}) settles: the file is
\* created if it is not there.
OpenSettle ==
  /\ "open" \in inflight
  /\ inflight' = inflight \ {"open"}
  /\ \E d \in Ticks :
       /\ now' = now + d
       /\ \/ /\ files' = files \cup {dbPath}
             /\ tables' = IF dbPath \in files THEN tables ELSE EmptyDb
             /\ conn' = "open"
             /\ Resolve("open", now + d)
          \/ /\ UNCHANGED << files, tables, conn >>
             /\ Reject("open", IoError)
  /\ UNCHANGED << tstart, sqlStart, err, exitCode, started, dangling, leftover >>

\* db.exec(batch) settles
ExecSettle ==
  \E step \in ExecSteps \cap inflight :
    /\ inflight' = inflight \ {step}
    /\ \E d \in Ticks, ioFailAt \in 0..Len(BatchOf(step)) :
         LET res == IF conn = "open"
                      THEN Exec(tables, BatchOf(step), ioFailAt, dangling)
                      ELSE Failed(tables, dangling, "SQLITE_MISUSE")
         IN /\ now' = now + d
            /\ tables' = res.db
            /\ dangling' = res.dangling
            /\ IF res.ok THEN Resolve(step, now + d) ELSE Reject(step, res.error)
    /\ UNCHANGED << tstart, sqlStart, err, exitCode, files, conn, started, leftover >>

\* db.all(query) settles
QuerySettle ==
  \E step \in Range(Queries) \cap inflight :
    /\ inflight' = inflight \ {step}
    /\ \E d \in Ticks, ioFail \in BOOLEAN :
         LET res == IF conn # "open" THEN Failed(tables, 0, "SQLITE_MISUSE")
                    ELSE IF ioFail THEN Failed(tables, 0, IoError)
                    ELSE DbAll(tables, step)
         IN /\ now' = now + d
            /\ tables' = res.db
            /\ IF res.ok THEN Resolve(step, now + d) ELSE Reject(step, res.error)
    /\ UNCHANGED << tstart, sqlStart, err, exitCode, files, conn, started, dangling,
                    leftover >>

\* db.close() settles
CloseSettle ==
  /\ "close" \in inflight
  /\ inflight' = inflight \ {"close"}
  /\ \E d \in Ticks, ioFail \in BOOLEAN :
       /\ now' = now + d
       /\ IF conn = "open" /\ ~ioFail
            THEN /\ conn' = "closed"
                 /\ Resolve("close", now + d)
            ELSE /\ conn' = conn
                 /\ Reject("close", IF ioFail THEN IoError ELSE "SQLITE_MISUSE")
  /\ UNCHANGED << tstart, sqlStart, err, exitCode, files, tables, started, dangling,
                  leftover >>

\* fs.unlinkSync(dbPath), then bench_sql's last hrtime and console.log
UnlinkDbFile ==
  /\ Call("unlink_db")
  /\ \E d \in Ticks, ioFail \in BOOLEAN :
       /\ now' = now + d
       /\ IF dbPath \in files /\ ~ioFail
            THEN /\ files' = files \ {dbPath}
                 /\ tables' = EmptyDb
                 /\ Return("unlink_db", StartFor("unlink_db"), now + d)
            ELSE /\ UNCHANGED << files, tables >>
                 /\ Throw("unlink_db", IF ioFail THEN IoError ELSE "ENOENT")
  /\ UNCHANGED << inflight, err, exitCode, conn, dangling, leftover >>

\* bench()'s promise is fulfilled and nothing is left to do: the process ends.
ProcessExit ==
  /\ pc = "resolved"
  /\ inflight = {}
  /\ pc' = "exited"
  /\ exitCode' = ExitStatus(FALSE, RejectionHandled)
  /\ UNCHANGED << phase, inflight, now, tstart, sqlStart, out, err, files, tables, conn,
                  failedAt, error, started, completed, dangling, leftover >>

\* bench()'s promise is rejected: .catch(console.error) prints the error (with
\* no handler the runtime would print it as uncaught), and the process ends.
CatchHandler ==
  /\ pc = "rejected"
  /\ pc' = "exited"
  /\ err' = Append(err, [by |-> IF RejectionHandled THEN "console.error" ELSE "uncaught",
                         error |-> error])
  /\ exitCode' = ExitStatus(TRUE, RejectionHandled)
  /\ files' = FilesAfterCatch(files)
  /\ tables' = IF dbPath \in files' THEN tables ELSE EmptyDb
  /\ UNCHANGED << phase, inflight, now, tstart, sqlStart, out, conn, failedAt, error,
                  started, completed, dangling, leftover >>

\* The program is run again: a new process, on the temp directory as it was left.
Restart ==
  /\ pc = "exited"
  /\ pc' = Bench[1]
  /\ phase' = "ready"
  /\ inflight' = {}
  /\ now' = 0
  /\ tstart' = 0
  /\ sqlStart' = 0
  /\ out' = <<>>
  /\ err' = <<>>
  /\ exitCode' = -1
  /\ conn' = "none"
  /\ failedAt' = ""
  /\ error' = ""
  /\ started' = <<>>
  /\ completed' = <<>>
  /\ dangling' = 0
  /\ leftover' = [files |-> files, db |-> tables]
  /\ UNCHANGED << files, tables >>

Next ==
  \/ SqrtLoop
  \/ WriteFileSync
  \/ ReadFileSync
  \/ UnlinkTestFile
  \/ AwaitCall
  \/ OpenSettle
  \/ ExecSettle
  \/ QuerySettle
  \/ CloseSettle
  \/ UnlinkDbFile
  \/ ProcessExit
  \/ CatchHandler
  \/ Restart

Spec == Init /\ [][Next]_vars

\* ------------------------------------------------------------------ claims
Labels(lines) == [i \in 1..Len(lines) |-> lines[i].label]
Duration(line) == line.end - line.start

RECURSIVE SumDurations(_)
SumDurations(lines) ==
  IF lines = <<>> THEN 0 ELSE Duration(Head(lines)) + SumDurations(Tail(lines))

Prefix(a, b) == Len(a) <= Len(b) /\ a = SubSeq(b, 1, Len(a))

\* The run is over and no operation failed / an operation failed.
Succeeded == pc \in {"resolved", "exited"} /\ failedAt = ""
HasFailed == failedAt # ""

\* The lines of a run in which nothing fails.
FullOutput ==
  << "Square root execution", "Write execution", "Read execution", "Schema creation",
     "Data insertion", "Complex JOIN query", "Recursive CTE query", "Complex aggregation",
     "Full-text search", "Total SQL benchmark" >>

\* How many lines are printed before each operation starts.
LinesBefore(step) ==
  CASE step = "sqrt" -> 0
    [] step = "write" -> 1
    [] step = "read" -> 2
    [] step \in {"unlink_txt", "open", "drop", "create"} -> 3
    [] step \in Range(InsertTestData) -> 4
    [] step = "join" -> 5
    [] step = "cte" -> 6
    [] step = "agg" -> 7
    [] step = "search" -> 8
    [] step \in {"close", "unlink_db"} -> 9

RowCounts == [t \in TableNames |-> Len(tables.rows[t])]

FixtureCounts ==
  [t \in TableNames |->
     CASE t = "customers" -> 3 [] t = "categories" -> 6 [] t = "products" -> 4
       [] t = "orders" -> 4 [] t = "order_items" -> 5]

\* Every operation of the program, in the order bench() lists them.
AllOperations ==
  << "sqrt", "write", "read", "unlink_txt", "open", "drop", "create", "ins_customers",
     "ins_categories", "ins_products", "ins_orders", "join", "cte", "agg", "search",
     "close", "unlink_db" >>

\* C1 as stated: a run in which a step failed exits non-zero with an uncaught
\* error report, a run in which none failed exits zero after the total line.
C1_ExitNonZeroOnFailure ==
  pc = "exited" =>
    IF HasFailed
      THEN exitCode # 0 /\ Len(err) = 1 /\ err[1].by = "uncaught"
      ELSE exitCode = 0 /\ out # <<>> /\ out[Len(out)].label = TotalLabel

\* C1 amended: a run in which a step failed ends with the error printed once by
\* the entry point's console.error handler, no total line, and exit status 0; a
\* run in which none failed prints nothing on stderr and exits 0 after the total
\* line.
C1_ExitZeroErrorLogged ==
  pc = "exited" =>
    IF HasFailed
      THEN /\ exitCode = 0
           /\ err = << [by |-> "console.error", error |-> error] >>
           /\ error # ""
           /\ \A i \in 1..Len(out) : out[i].label # TotalLabel
      ELSE /\ exitCode = 0
           /\ err = <<>>
           /\ out # <<>>
           /\ out[Len(out)].label = TotalLabel

\* C1 witness: a run whose aggregation query failed has exited.
C1_Witness == pc = "exited" /\ failedAt = "agg" /\ exitCode = 0 /\ Len(out) = 7

\* C2: once an operation has failed, the operations started are exactly those
\* listed up to the failing one, those completed exactly the ones before it,
\* stdout holds exactly the lines due before the failing operation, bench_sql
\* has not started if the failure was in bench_simple; and from then on the
\* process starts nothing and prints nothing more on stdout.
C2_FailureStopsTheRun ==
  /\ [](HasFailed =>
          /\ failedAt \in Range(AllOperations)
          /\ started = SubSeq(AllOperations, 1, IndexOf(AllOperations, failedAt))
          /\ completed = SubSeq(AllOperations, 1, IndexOf(AllOperations, failedAt) - 1)
          /\ Labels(out) = SubSeq(FullOutput, 1, LinesBefore(failedAt))
          /\ inflight = {}
          /\ (failedAt \in Range(BenchSimple) => "open" \notin Range(started)))
  /\ [][HasFailed /\ failedAt' # "" => out' = out /\ started' = started]_vars

\* C2 witness: the file read failed; two lines were printed and bench_sql never ran.
C2_Witness ==
  pc = "exited" /\ failedAt = "read" /\ Len(out) = 2 /\ "open" \notin Range(started)

\* C3 as stated: a successful run prints one timing line for each operation it
\* executed, then the total line.
C3_OneLinePerOperation ==
  Succeeded =>
    /\ Len(out) = Len(completed) + 1
    /\ out[Len(out)].label = TotalLabel

\* C3 amended: a successful run executes the seventeen operations and prints
\* exactly ten lines: one for each of the nine timed operations (square root,
\* write, read, schema, insert, the four queries), in the order they ran, then
\* the total line; deleting the text file, opening and closing the database and
\* deleting the database file print no line.
C3_OneLinePerTimedOperation ==
  Succeeded =>
    /\ completed = AllOperations
    /\ Labels(out) = FullOutput
    /\ \A i \in 1..(Len(out) - 2) : out[i].end <= out[i + 1].start

\* C3 witness: a successful run on which the clock advanced.
C3_Witness == pc = "exited" /\ failedAt = "" /\ Len(out) = 10 /\ now > 0

\* C4 as stated: the total line spans every timed operation of the run and is at
\* least the sum of all the reported durations.
C4_TotalSpansWholeRun ==
  Succeeded =>
    LET total == out[Len(out)]
        timed == SubSeq(out, 1, Len(out) - 1)
    IN /\ \A i \in 1..Len(timed) : total.start <= timed[i].start /\ timed[i].end <= total.end
       /\ Duration(total) >= SumDurations(timed)

\* C4 amended: the total line spans bench_sql only, from the timestamp read
\* before the database is opened to the one read after the database file is
\* deleted: it starts no earlier than the end of the read line, covers the
\* schema, insert and query lines, and is at least the sum of those six
\* durations; the square root, write and read durations are not part of it.
C4_TotalSpansBenchSql ==
  Succeeded =>
    LET total == out[Len(out)]
        simple == SubSeq(out, 1, 3)
        sql == SubSeq(out, 4, Len(out) - 1)
    IN /\ total.label = TotalLabel
       /\ total.start = sqlStart
       /\ total.end = now
       /\ \A i \in 1..Len(simple) : simple[i].end <= total.start
       /\ \A i \in 1..Len(sql) : total.start <= sql[i].start /\ sql[i].end <= total.end
       /\ Len(sql) = 6
       /\ Duration(total) >= SumDurations(sql)

\* C4 witness: a successful run whose square root loop and schema setup both took time.
C4_Witness ==
  /\ pc = "exited" /\ failedAt = "" /\ Len(out) = 10
  /\ Duration(out[1]) > 0 /\ Duration(out[4]) > 0

C6_OneAtATime ==
  /\ Cardinality(inflight) <= 1
  /\ (phase = "ready" => inflight = {})
  /\ (phase = "awaiting" => inflight = {pc})
  /\ Prefix(started, AllOperations)
  /\ Prefix(completed, started)
  /\ Len(started) - Len(completed) <= 1
  /\ ("open" \in Range(started) => Range(BenchSimple) \subseteq Range(completed))
  /\ (Range(InsertTestData) \cap Range(started) # {} => Range(CreateSchema) \subseteq Range(completed))
  /\ (Range(Queries) \cap Range(started) # {} => Range(InsertTestData) \subseteq Range(completed))

\* C6 witness: the second schema batch is in flight, the first one done.
C6_Witness == pc = "create" /\ phase = "awaiting" /\ inflight = {"create"}

\* The lines a run prints after the insert line and before the total line.
QueryLines ==
  {i \in 1..Len(out) :
     /\ out[i].label # TotalLabel
     /\ \E j \in 1..(i - 1) : out[j].label = "Data insertion"}

\* C7 as stated: a successful run has executed five queries, each with its own line.
C7_FiveQueries == Succeeded => Cardinality(QueryLines) = 5

\* C7 amended: a successful run has executed four queries (join, recursive CTE,
\* aggregation, search), one after the other, each with its own pair of
\* timestamps and its own line, and none of them changes any table.
C7_FourReadOnlyQueries ==
  /\ [](Succeeded =>
          /\ QueryLines = 6..9
          /\ SubSeq(Labels(out), 6, 9) =
               << "Complex JOIN query", "Recursive CTE query", "Complex aggregation",
                  "Full-text search" >>
          /\ \A i \in 6..9 : out[i].start <= out[i].end
          /\ \A i \in 6..8 : out[i].end <= out[i + 1].start
          /\ SubSeq(completed, 12, 15) = << "join", "cte", "agg", "search" >>)
  /\ [][(pc \in {"join", "cte", "agg", "search"}) => tables' = tables]_vars

\* C7 witness: the last query has just resolved with the fixture rows in place.
C7_Witness == pc = "close" /\ phase = "ready" /\ Len(out) = 9 /\ RowCounts = FixtureCounts

\* C8: once fixture load has completed (and until the file is deleted) the row
\* counts are 3, 6, 4, 4, 5 and every foreign key named an existing row when it
\* was inserted and names one now.
C8_FixtureCounts ==
  ("ins_orders" \in Range(completed) /\ "unlink_db" \notin Range(completed)) =>
    /\ RowCounts = FixtureCounts
    /\ dangling = 0
    /\ \A t \in TableNames : \A i \in 1..Len(tables.rows[t]) :
         Dangling(tables, t, tables.rows[t][i]) = {}

\* C8 witness: fixture load has just completed on a database an earlier run left with rows.
C8_Witness ==
  /\ pc = "join" /\ phase = "ready"
  /\ Len(leftover.db.rows["order_items"]) = 5

\* C9: a failing operation and the error handler delete nothing and close
\* nothing; after a failed read the text file is there, after a failed schema,
\* insert or query the database file is there with the connection open; and the
\* text file, once bench_simple deleted it, stays deleted for the rest of the run.
C9_NoCleanupOnError ==
  /\ [](/\ (HasFailed /\ failedAt = "read" => testFile \in files)
        /\ (HasFailed /\ failedAt \in Range(CreateSchema) \cup Range(InsertTestData)
                                        \cup Range(Queries)
              => dbPath \in files /\ conn = "open")
        /\ ("unlink_txt" \in Range(completed) => testFile \notin files))
  /\ [][pc' = "rejected" \/ pc = "rejected"
          => (files \subseteq files' /\ (conn = "open" => conn' = "open"))]_vars

\* C9 witness: the run ended after fixture load failed, the database file still there.
C9_Witness ==
  /\ pc = "exited" /\ failedAt = "ins_products"
  /\ files = {dbPath} /\ conn = "open" /\ tables.rows["categories"] # <<>>

\* C10: when schema setup has just completed the five tables exist and are
\* empty, whatever the database file held before; no operation fails because of
\* what an earlier run left behind (only the environment makes one fail); and a
\* successful run prints the same lines, and has the same row counts before it
\* closes the database, whatever it found in the temp directory.
C10_SchemaResetsLeftovers ==
  /\ (pc = "ins_customers" /\ phase = "ready"
        => /\ tables.exists = TableNames
           /\ \A t \in TableNames : tables.rows[t] = <<>>)
  /\ (HasFailed => error = IoError)
  /\ (pc = "close" => RowCounts = FixtureCounts /\ Labels(out) = SubSeq(FullOutput, 1, 9))
  /\ (Succeeded => Labels(out) = FullOutput)

\* C10 witness: a successful run on a database file an earlier run left with
\* all its tables and rows.
C10_Witness ==
  /\ pc = "exited" /\ failedAt = ""
  /\ leftover.db.exists = TableNames
  /\ Len(leftover.db.rows["order_items"]) = 5
====
